---- MODULE Spec2Model ----
(***************************************************************************)
(* User login system (src/main.py): User / AdminUser accounts, the JSON    *)
(* persistence functions save_users / load_users, find_user, the admin     *)
(* sub-menu admin_actions and the menu loop of main.                       *)
(*                                                                         *)
(* An in-memory account is a record                                        *)
(*   [cls, username, password, active, login_count]                        *)
(* where cls is the Python class of the object ("User" or "AdminUser").    *)
(* A JSON object of users.json is a function from the keys it contains to  *)
(* their values, so that a key may be missing.                             *)
(***************************************************************************)
EXTENDS Integers, Sequences, FiniteSets, TLC

VARIABLES
    users,   \* main's list `users` (kept after exit as the last memory image)
    file,    \* users.json: [state: "missing" | "corrupt" | "json", raw: list of objects]
    pc,      \* "off": no process running; "run": main is in its menu loop
    last,    \* what the last handler was given and what it answered
    audit    \* per list position: the login_count the object was constructed
             \* with plus the number of its login() calls that returned True

vars == <<users, file, pc, last, audit>>

----------------------------------------------------------------------------
(* Bounds of the model *)

MaxLogins  == 2   \* login() is not taken on an account whose login_count reached it

Names      == {"admin", "Admin"}      \* usernames typed, or held by a given list or file
Passwords  == {"admin123", "pw1"}     \* passwords typed, or held by a given list or file
TypeTags   == {"User", "AdminUser", "Guest"}  \* values of "type" in a given file
Counts     == 0 .. 1                  \* values of login_count in a given list or file
Choices    == {"a", "b", "c", "d"}    \* admin sub-menu choices ("d": anything else)

DefaultAdminName == "admin"
DefaultAdminPw   == "admin123"

Keys == {"type", "username", "password", "active", "login_count"}

None == 0   \* find_user's None: no position of the list

----------------------------------------------------------------------------
(* Models: class User *)

\* User.__init__ / AdminUser.__init__
NewUser(cls, username, password, active, login_count) ==
    [cls |-> cls, username |-> username, password |-> password,
     active |-> active, login_count |-> login_count]

\* User.check_password
check_password(u, pw) == u.password = pw

\* login without the username comparison
login_any_username(u, username, password) ==
    IF ~u.active
    THEN [res |-> "Disabled", user |-> u]
    ELSE IF check_password(u, password)
         THEN [res |-> "Success",
               user |-> [u EXCEPT !.login_count = u.login_count + 1]]
         ELSE [res |-> "InvalidCredentials", user |-> u]

\* login that compares the credentials before it looks at the active flag
login_creds_first(u, username, password) ==
    IF ~(u.username = username /\ check_password(u, password))
    THEN [res |-> "InvalidCredentials", user |-> u]
    ELSE IF ~u.active
         THEN [res |-> "Disabled", user |-> u]
         ELSE [res |-> "Success",
               user |-> [u EXCEPT !.login_count = u.login_count + 1]]

\* login that counts every attempt on an active account
login_counts_attempts(u, username, password) ==
    IF ~u.active
    THEN [res |-> "Disabled", user |-> u]
    ELSE IF u.username = username /\ check_password(u, password)
         THEN [res |-> "Success",
               user |-> [u EXCEPT !.login_count = u.login_count + 1]]
         ELSE [res |-> "InvalidCredentials",
               user |-> [u EXCEPT !.login_count = u.login_count + 1]]

\* login that starts the counter again after a failed attempt
login_failure_clears_count(u, username, password) ==
    IF ~u.active
    THEN [res |-> "Disabled", user |-> u]
    ELSE IF u.username = username /\ check_password(u, password)
         THEN [res |-> "Success",
               user |-> [u EXCEPT !.login_count = u.login_count + 1]]
         ELSE [res |-> "InvalidCredentials", user |-> [u EXCEPT !.login_count = 0]]

\* User.login: the returned outcome and the object afterwards
login(u, username, password) ==
    IF ~u.active
    THEN [res |-> "Disabled", user |-> u]
    ELSE IF u.username = username /\ check_password(u, password)
         THEN [res |-> "Success",
               user |-> [u EXCEPT !.login_count = u.login_count + 1]]
         ELSE [res |-> "InvalidCredentials", user |-> u]

\* User.to_dict
User_to_dict(u) ==
    [type |-> "User", username |-> u.username, password |-> u.password,
     active |-> u.active, login_count |-> u.login_count]

\* dict.get(k, default)
Get(d, k, default) == IF k \in DOMAIN d THEN d[k] ELSE default

\* d[k] raises KeyError for a missing key
HasRequired(d) == "username" \in DOMAIN d /\ "password" \in DOMAIN d

\* User.from_dict (defined where HasRequired(d))
User_from_dict(d) ==
    NewUser("User", d["username"], d["password"],
            Get(d, "active", TRUE), Get(d, "login_count", 0))

(* Models: class AdminUser *)

\* reset_password that rebinds a local name and leaves the object as it was
reset_password_lost(user, new_pw) == user

\* reset_password that also starts the login counter again
reset_password_clears_count(user, new_pw) ==
    [user EXCEPT !.password = new_pw, !.login_count = 0]

\* AdminUser.reset_password
reset_password(user, new_pw) == [user EXCEPT !.password = new_pw]

\* deactivate that flips the flag
deactivate_toggle(user) == [user EXCEPT !.active = ~user.active]

\* AdminUser.deactivate
deactivate(user) == [user EXCEPT !.active = FALSE]

\* reactivate that hands back a fresh account
reactivate_clears_count(user) == [user EXCEPT !.active = TRUE, !.login_count = 0]

\* AdminUser.reactivate
reactivate(user) == [user EXCEPT !.active = TRUE]

\* AdminUser.to_dict without the type marker
AdminUser_to_dict_notag(u) == User_to_dict(u)

\* AdminUser.to_dict
AdminUser_to_dict(u) == [User_to_dict(u) EXCEPT !["type"] = "AdminUser"]

\* AdminUser.from_dict (defined where HasRequired(d))
AdminUser_from_dict(d) ==
    NewUser("AdminUser", d["username"], d["password"],
            Get(d, "active", TRUE), Get(d, "login_count", 0))

\* u.to_dict() dispatched on the object's class
to_dict(u) == IF u.cls = "AdminUser" THEN AdminUser_to_dict(u) ELSE User_to_dict(u)

\* isinstance(u, AdminUser) for a list position or None
IsAdmin(us, i) == i # None /\ us[i].cls = "AdminUser"

----------------------------------------------------------------------------
(* Persistence *)

NoFile      == [state |-> "missing", raw |-> <<>>]
CorruptFile == [state |-> "corrupt", raw |-> <<>>]
JsonFile(raw) == [state |-> "json", raw |-> raw]

\* save_users: the content of users.json after the call
save_users(us) == JsonFile([i \in 1 .. Len(us) |-> to_dict(us[i])])

\* the loop body with the test written as: type is not "User"
load_one_not_user(d) ==
    IF Get(d, "type", "User") # "User" THEN AdminUser_from_dict(d) ELSE User_from_dict(d)

\* the loop body of load_users for one object
load_one(d) ==
    IF Get(d, "type", "") = "AdminUser" THEN AdminUser_from_dict(d) ELSE User_from_dict(d)

\* load_users without the except clause
load_users_no_except(f) ==
    IF f.state = "missing" THEN [err |-> "FileNotFoundError", users |-> <<>>]
    ELSE IF f.state = "corrupt" THEN [err |-> "JSONDecodeError", users |-> <<>>]
    ELSE IF \E i \in 1 .. Len(f.raw) : ~HasRequired(f.raw[i])
         THEN [err |-> "KeyError", users |-> <<>>]
         ELSE [err |-> "none",
               users |-> [i \in 1 .. Len(f.raw) |-> load_one(f.raw[i])]]

\* load_users: the list it returns, or the exception that leaves it
load_users(f) ==
    IF f.state = "missing" THEN [err |-> "none", users |-> <<>>]
    ELSE IF f.state = "corrupt" THEN [err |-> "JSONDecodeError", users |-> <<>>]
    ELSE IF \E i \in 1 .. Len(f.raw) : ~HasRequired(f.raw[i])
         THEN [err |-> "KeyError", users |-> <<>>]
         ELSE [err |-> "none",
               users |-> [i \in 1 .. Len(f.raw) |-> load_one(f.raw[i])]]

\* find_user whose `return None` sits inside the loop: only the head is looked at
find_user_head(us, username) ==
    IF Len(us) > 0 /\ us[1].username = username THEN 1 ELSE None

Lower(name) == IF name = "Admin" THEN "admin" ELSE name

\* find_user that compares the usernames without regard to case
find_user_nocase(us, username) ==
    IF \E i \in 1 .. Len(us) : Lower(us[i].username) = Lower(username)
    THEN CHOOSE i \in 1 .. Len(us) :
            /\ Lower(us[i].username) = Lower(username)
            /\ \A j \in 1 .. (i - 1) : Lower(us[j].username) # Lower(username)
    ELSE None

\* find_user: the first position holding the username, or None
find_user(us, username) ==
    IF \E i \in 1 .. Len(us) : us[i].username = username
    THEN CHOOSE i \in 1 .. Len(us) :
            /\ us[i].username = username
            /\ \A j \in 1 .. (i - 1) : us[j].username # username
    ELSE None

\* the bootstrap without its `if`: a default admin is appended on every start
ensure_admin_always(us) ==
    Append(us, NewUser("AdminUser", DefaultAdminName, DefaultAdminPw, TRUE, 0))

\* the bootstrap that looks for an admin that can still log in
ensure_admin_active(us) ==
    IF ~ \E i \in 1 .. Len(us) : us[i].cls = "AdminUser" /\ us[i].active
    THEN Append(us, NewUser("AdminUser", DefaultAdminName, DefaultAdminPw, TRUE, 0))
    ELSE us

\* main, lines 193-196: guarantee at least one admin exists
ensure_admin(us) ==
    IF ~ \E i \in 1 .. Len(us) : us[i].cls = "AdminUser"
    THEN Append(us, NewUser("AdminUser", DefaultAdminName, DefaultAdminPw, TRUE, 0))
    ELSE us

----------------------------------------------------------------------------
(* JSON objects with any subset of the keys *)

MkDict(D, t, u, p, a, c) ==
    [k \in D |-> CASE k = "type" -> t
                   [] k = "username" -> u
                   [] k = "password" -> p
                   [] k = "active" -> a
                   [] OTHER -> c]

Dicts ==
    {MkDict(D, t, u, p, a, c) :
        D \in SUBSET Keys, t \in TypeTags, u \in Names, p \in Passwords,
        a \in BOOLEAN, c \in Counts}

RECURSIVE SeqsUpTo(_, _)
SeqsUpTo(S, n) ==
    IF n = 0 THEN {<<>>}
    ELSE LET shorter == SeqsUpTo(S, n - 1)
         IN  shorter \cup {Append(s, e) : s \in {t \in shorter : Len(t) = n - 1}, e \in S}

----------------------------------------------------------------------------
(* Helpers: prompt_nonempty *)

\* str.strip() on the lines typed here: a line of blanks becomes empty
Strip(line) == IF line = " " THEN "" ELSE line

\* prompt_nonempty that returns the first line whatever it holds
prompt_nonempty_once(lines) == Strip(lines[1])

\* prompt_nonempty: the lines typed at the prompt, up to the first that is
\* not empty once stripped, which it returns
prompt_nonempty(lines) ==
    Strip(lines[CHOOSE i \in 1 .. Len(lines) :
                    /\ Strip(lines[i]) # ""
                    /\ \A j \in 1 .. (i - 1) : Strip(lines[j]) = ""])

\* what may be typed at a prompt to give one of the values S: the value, or
\* an empty or blank line and then the value
Typed(S) == {<<v>> : v \in S} \cup {<<b, v>> : b \in {"", " "}, v \in S}

AskedNames     == {prompt_nonempty(lines) : lines \in Typed(Names)}
AskedPasswords == {prompt_nonempty(lines) : lines \in Typed(Passwords)}

----------------------------------------------------------------------------
(* Admin sub-menu *)

NotAsked == ""   \* a prompt the handler did not reach

\* admin_actions that goes on to the sub-menu whatever login() returned
admin_actions_nogate(us, admin_name, admin_pw, choice, target, new_pw) ==
    LET a == find_user(us, admin_name) IN
    IF ~IsAdmin(us, a)
    THEN [users |-> us, res |-> "NotAdmin", gate |-> "NotCalled", idx |-> a, tidx |-> None]
    ELSE
    LET r   == login(us[a], admin_name, admin_pw)
        us1 == [us EXCEPT ![a] = r.user]
        t   == find_user(us1, target)
    IN  IF choice \notin {"a", "b", "c"}
        THEN [users |-> us1, res |-> "Back", gate |-> r.res, idx |-> a, tidx |-> None]
        ELSE IF t = None
        THEN [users |-> us1, res |-> "TargetNotFound", gate |-> r.res, idx |-> a, tidx |-> None]
        ELSE IF choice = "a"
        THEN [users |-> [us1 EXCEPT ![t] = reset_password(us1[t], new_pw)],
              res |-> "Reset", gate |-> r.res, idx |-> a, tidx |-> t]
        ELSE IF choice = "b"
        THEN [users |-> [us1 EXCEPT ![t] = deactivate(us1[t])],
              res |-> "Deactivated", gate |-> r.res, idx |-> a, tidx |-> t]
        ELSE [users |-> [us1 EXCEPT ![t] = reactivate(us1[t])],
              res |-> "Reactivated", gate |-> r.res, idx |-> a, tidx |-> t]

\* admin_actions that calls login() on the account found before it looks at
\* the account's class
admin_actions_login_first(us, admin_name, admin_pw, choice, target, new_pw) ==
    LET a == find_user(us, admin_name) IN
    IF a = None
    THEN [users |-> us, res |-> "NotAdmin", gate |-> "NotCalled", idx |-> a, tidx |-> None]
    ELSE
    LET r   == login(us[a], admin_name, admin_pw)
        us1 == [us EXCEPT ![a] = r.user]
        t   == find_user(us1, target)
    IN  IF ~IsAdmin(us, a)
        THEN [users |-> us1, res |-> "NotAdmin", gate |-> "NotCalled", idx |-> a, tidx |-> None]
        ELSE IF r.res # "Success"
        THEN [users |-> us1, res |-> r.res, gate |-> r.res, idx |-> a, tidx |-> None]
        ELSE IF choice \notin {"a", "b", "c"}
        THEN [users |-> us1, res |-> "Back", gate |-> r.res, idx |-> a, tidx |-> None]
        ELSE IF t = None
        THEN [users |-> us1, res |-> "TargetNotFound", gate |-> r.res, idx |-> a, tidx |-> None]
        ELSE IF choice = "a"
        THEN [users |-> [us1 EXCEPT ![t] = reset_password(us1[t], new_pw)],
              res |-> "Reset", gate |-> r.res, idx |-> a, tidx |-> t]
        ELSE IF choice = "b"
        THEN [users |-> [us1 EXCEPT ![t] = deactivate(us1[t])],
              res |-> "Deactivated", gate |-> r.res, idx |-> a, tidx |-> t]
        ELSE [users |-> [us1 EXCEPT ![t] = reactivate(us1[t])],
              res |-> "Reactivated", gate |-> r.res, idx |-> a, tidx |-> t]

\* admin_actions: the list afterwards and what happened.
\* gate: what login() returned, idx: position of the account named as admin,
\* tidx: position of the target.
admin_actions(us, admin_name, admin_pw, choice, target, new_pw) ==
    LET a == find_user(us, admin_name) IN
    IF ~IsAdmin(us, a)
    THEN [users |-> us, res |-> "NotAdmin", gate |-> "NotCalled", idx |-> a, tidx |-> None]
    ELSE
    LET r   == login(us[a], admin_name, admin_pw)
        us1 == [us EXCEPT ![a] = r.user]
        t   == find_user(us1, target)
    IN  IF r.res # "Success"
        THEN [users |-> us1, res |-> r.res, gate |-> r.res, idx |-> a, tidx |-> None]
        ELSE IF choice \notin {"a", "b", "c"}
        THEN [users |-> us1, res |-> "Back", gate |-> r.res, idx |-> a, tidx |-> None]
        ELSE IF t = None
        THEN [users |-> us1, res |-> "TargetNotFound", gate |-> r.res, idx |-> a, tidx |-> None]
        ELSE IF choice = "a"
        THEN [users |-> [us1 EXCEPT ![t] = reset_password(us1[t], new_pw)],
              res |-> "Reset", gate |-> r.res, idx |-> a, tidx |-> t]
        ELSE IF choice = "b"
        THEN [users |-> [us1 EXCEPT ![t] = deactivate(us1[t])],
              res |-> "Deactivated", gate |-> r.res, idx |-> a, tidx |-> t]
        ELSE [users |-> [us1 EXCEPT ![t] = reactivate(us1[t])],
              res |-> "Reactivated", gate |-> r.res, idx |-> a, tidx |-> t]

\* the answers to the prompts admin_actions reaches, given the earlier answers
ChoiceAsked(us, admin_name, admin_pw) ==
    IF admin_actions(us, admin_name, admin_pw, "d", NotAsked, NotAsked).res = "Back"
    THEN Choices ELSE {NotAsked}

TargetAsked(choice) == IF choice \in {"a", "b", "c"} THEN AskedNames ELSE {NotAsked}

NewPwAsked(us, choice, target) ==
    IF choice = "a" /\ find_user(us, target) # None THEN AskedPasswords ELSE {NotAsked}

----------------------------------------------------------------------------
(* The program: main *)

Event(op, user, pw, choice, target, newpw, res, idx, tidx) ==
    [op |-> op, user |-> user, pw |-> pw, choice |-> choice, target |-> target,
     newpw |-> newpw, res |-> res, idx |-> idx, tidx |-> tidx]

\* before any handler has run
NoEvent == Event("init", NotAsked, NotAsked, NotAsked, NotAsked, NotAsked, "ok", None, None)

FreshAudit(us) == [i \in 1 .. Len(us) |-> us[i].login_count]

CountSuccess(au, i) == [au EXCEPT ![i] = au[i] + 1]

\* The users.json a first run may find: none, one that is not JSON, an empty
\* list, and lists written by hand or by another version of the program.
StartFiles ==
    {NoFile, CorruptFile, JsonFile(<<>>),
     \* a regular account that holds the default admin's name
     JsonFile(<<[type |-> "User", username |-> "admin", password |-> "pw1",
                 active |-> TRUE, login_count |-> 0]>>),
     \* an admin under another name, without the optional keys
     JsonFile(<<[type |-> "AdminUser", username |-> "Admin", password |-> "pw1"]>>),
     \* a disabled admin
     JsonFile(<<[type |-> "AdminUser", username |-> "admin", password |-> "admin123",
                 active |-> FALSE, login_count |-> 1]>>),
     \* an unknown type tag
     JsonFile(<<[type |-> "Guest", username |-> "Admin", password |-> "pw1",
                 active |-> FALSE, login_count |-> 1]>>),
     \* an object without "password"
     JsonFile(<<[type |-> "User", username |-> "Admin"]>>),
     \* the same username twice
     JsonFile(<<[type |-> "AdminUser", username |-> "admin", password |-> "admin123",
                 active |-> TRUE, login_count |-> 0],
                [username |-> "admin", password |-> "pw1"]>>)}

Init ==
    /\ users = <<>>
    /\ file \in StartFiles
    /\ pc = "off"
    /\ last = NoEvent
    /\ audit = <<>>

\* main, lines 191-196: load the list and guarantee an admin; an exception
\* of load_users ends the process
Main_Start ==
    /\ pc = "off"
    /\ LET r == load_users(file) IN
       IF r.err # "none"
       THEN /\ last' = Event("start", NotAsked, NotAsked, NotAsked, NotAsked, NotAsked,
                             r.err, None, None)
            /\ UNCHANGED <<users, file, pc, audit>>
       ELSE /\ users' = ensure_admin(r.users)
            /\ audit' = FreshAudit(users')
            /\ pc' = "run"
            /\ last' = Event("start", NotAsked, NotAsked, NotAsked, NotAsked, NotAsked,
                             "ok", None, None)
            /\ UNCHANGED file

\* main, choice "1"
Main_Create ==
    /\ pc = "run"
    /\ \E username \in AskedNames :
       \E password \in (IF find_user(users, username) # None
                        THEN {NotAsked} ELSE AskedPasswords) :
         LET i == find_user(users, username) IN
         /\ IF i # None
            THEN /\ last' = Event("create", username, password, NotAsked, NotAsked,
                                  NotAsked, "DuplicateUsername", i, None)
                 /\ UNCHANGED <<users, audit>>
            ELSE /\ users' = Append(users, NewUser("User", username, password, TRUE, 0))
                 /\ audit' = Append(audit, 0)
                 /\ last' = Event("create", username, password, NotAsked, NotAsked,
                                  NotAsked, "Created", Len(users) + 1, None)
    /\ UNCHANGED <<file, pc>>

\* main, choice "2"
Main_Login ==
    /\ pc = "run"
    /\ \E username \in AskedNames, password \in AskedPasswords :
         LET i == find_user(users, username) IN
         IF i = None
         THEN /\ last' = Event("login", username, password, NotAsked, NotAsked,
                               NotAsked, "NotFound", None, None)
              /\ UNCHANGED <<users, audit>>
         ELSE LET r == login(users[i], username, password) IN
              /\ r.user.login_count <= MaxLogins
              /\ users' = [users EXCEPT ![i] = r.user]
              /\ audit' = IF r.res = "Success" THEN CountSuccess(audit, i) ELSE audit
              /\ last' = Event("login", username, password, NotAsked, NotAsked,
                               NotAsked, r.res, i, None)
    /\ UNCHANGED <<file, pc>>

\* main, choice "3": prints the list, changes nothing
Main_List ==
    /\ pc = "run"
    /\ last' = Event("list", NotAsked, NotAsked, NotAsked, NotAsked, NotAsked,
                     "ok", None, None)
    /\ UNCHANGED <<users, file, pc, audit>>

\* main, choice "4": admin_actions(users)
Main_Admin ==
    /\ pc = "run"
    /\ \E admin_name \in AskedNames, admin_pw \in AskedPasswords :
       \E choice \in ChoiceAsked(users, admin_name, admin_pw) :
       \E target \in TargetAsked(choice) :
       \E new_pw \in NewPwAsked(users, choice, target) :
         LET r == admin_actions(users, admin_name, admin_pw, choice, target, new_pw) IN
         /\ \A i \in 1 .. Len(users) : r.users[i].login_count <= MaxLogins
         /\ users' = r.users
         /\ audit' = IF r.gate = "Success" THEN CountSuccess(audit, r.idx) ELSE audit
         /\ last' = Event("admin", admin_name, admin_pw, choice, target, new_pw,
                          r.res, r.idx, r.tidx)
    /\ UNCHANGED <<file, pc>>

\* main, choice "5": save_users(users)
Main_Save ==
    /\ pc = "run"
    /\ file' = save_users(users)
    /\ last' = Event("save", NotAsked, NotAsked, NotAsked, NotAsked, NotAsked,
                     "ok", None, None)
    /\ UNCHANGED <<users, pc, audit>>

\* choice "6" without the autosave
Main_Exit_nosave ==
    /\ pc = "run"
    /\ pc' = "off"
    /\ last' = Event("exit", NotAsked, NotAsked, NotAsked, NotAsked, NotAsked,
                     "ok", None, None)
    /\ UNCHANGED <<users, file, audit>>

\* main, choice "6": autosave, then leave the loop
Main_Exit ==
    /\ pc = "run"
    /\ file' = save_users(users)
    /\ pc' = "off"
    /\ last' = Event("exit", NotAsked, NotAsked, NotAsked, NotAsked, NotAsked,
                     "ok", None, None)
    /\ UNCHANGED <<users, audit>>

\* main, any other choice
Main_Invalid ==
    /\ pc = "run"
    /\ last' = Event("invalid", NotAsked, NotAsked, NotAsked, NotAsked, NotAsked,
                     "ok", None, None)
    /\ UNCHANGED <<users, file, pc, audit>>

Next ==
    \/ Main_Start
    \/ Main_Create
    \/ Main_Login
    \/ Main_List
    \/ Main_Admin
    \/ Main_Save
    \/ Main_Exit
    \/ Main_Invalid

Spec == Init /\ [][Next]_vars

----------------------------------------------------------------------------
(* The classes and functions called directly, one call per behaviour (and  *)
(* save_users followed by load_users), on any list and any file            *)

ApiUsers ==
    {NewUser(c, n, p, a, k) :
        c \in {"User", "AdminUser"}, n \in Names, p \in Passwords,
        a \in BOOLEAN, k \in Counts}

ApiStores ==
    {<<>>} \cup {<<u>> : u \in ApiUsers} \cup {<<u, v>> : u \in ApiUsers, v \in ApiUsers}

\* a complete object and one that lacks "password", to stand next to any object
PairDicts ==
    {[type |-> "AdminUser", username |-> "admin", password |-> "admin123",
      active |-> TRUE, login_count |-> 0],
     [type |-> "User", username |-> "Admin"]}

ApiFiles ==
    {CorruptFile}
        \cup {JsonFile(<<d>>) : d \in Dicts}
        \cup {JsonFile(<<d, e>>) : d \in Dicts, e \in PairDicts}
        \cup {JsonFile(<<e, d>>) : d \in Dicts, e \in PairDicts}

InitApi ==
    /\ \/ users \in ApiStores /\ file = NoFile
       \/ users = <<>> /\ file \in ApiFiles
    /\ pc = "call"
    /\ last = NoEvent
    /\ audit = <<>>

\* users[i].login(username, password)
Api_Login ==
    /\ pc = "call"
    /\ \E i \in 1 .. Len(users), username \in Names, password \in Passwords :
         LET r == login(users[i], username, password) IN
         /\ users' = [users EXCEPT ![i] = r.user]
         /\ last' = Event("login", username, password, NotAsked, NotAsked, NotAsked,
                          r.res, i, None)
    /\ pc' = "returned"
    /\ UNCHANGED <<file, audit>>

\* admin.reset_password(users[i], new_pw)
Api_ResetPassword ==
    /\ pc = "call"
    /\ \E i \in 1 .. Len(users), new_pw \in Passwords :
         /\ users' = [users EXCEPT ![i] = reset_password(users[i], new_pw)]
         /\ last' = Event("reset_password", NotAsked, NotAsked, NotAsked,
                          users[i].username, new_pw, "ok", None, i)
    /\ pc' = "returned"
    /\ UNCHANGED <<file, audit>>

\* admin.deactivate(users[i]), as the only call or once more after a deactivate
Api_Deactivate ==
    /\ pc = "call" \/ (pc = "returned" /\ last.op = "deactivate")
    /\ \E i \in 1 .. Len(users) :
         /\ users' = [users EXCEPT ![i] = deactivate(users[i])]
         /\ last' = Event("deactivate", NotAsked, NotAsked, NotAsked,
                          users[i].username, NotAsked, "ok", None, i)
    /\ pc' = IF pc = "call" THEN "returned" ELSE "again"
    /\ UNCHANGED <<file, audit>>

\* admin.reactivate(users[i]), as the only call or once more after a reactivate
Api_Reactivate ==
    /\ pc = "call" \/ (pc = "returned" /\ last.op = "reactivate")
    /\ \E i \in 1 .. Len(users) :
         /\ users' = [users EXCEPT ![i] = reactivate(users[i])]
         /\ last' = Event("reactivate", NotAsked, NotAsked, NotAsked,
                          users[i].username, NotAsked, "ok", None, i)
    /\ pc' = IF pc = "call" THEN "returned" ELSE "again"
    /\ UNCHANGED <<file, audit>>

\* find_user(users, username)
Api_FindUser ==
    /\ pc = "call"
    /\ \E username \in Names :
         last' = Event("find_user", username, NotAsked, NotAsked, NotAsked, NotAsked,
                       "ok", find_user(users, username), None)
    /\ pc' = "returned"
    /\ UNCHANGED <<users, file, audit>>

\* save_users(users)
Api_Save ==
    /\ pc = "call"
    /\ file' = save_users(users)
    /\ last' = Event("save_users", NotAsked, NotAsked, NotAsked, NotAsked, NotAsked,
                     "ok", None, None)
    /\ pc' = "saved"
    /\ UNCHANGED <<users, audit>>

\* users = load_users()
Api_Load ==
    /\ pc \in {"call", "saved"}
    /\ LET r == load_users(file) IN
       /\ users' = IF r.err = "none" THEN r.users ELSE users
       /\ last' = Event("load_users", NotAsked, NotAsked, NotAsked, NotAsked, NotAsked,
                        r.err, None, None)
    /\ pc' = "returned"
    /\ UNCHANGED <<file, audit>>

NextApi ==
    \/ Api_Login
    \/ Api_ResetPassword
    \/ Api_Deactivate
    \/ Api_Reactivate
    \/ Api_FindUser
    \/ Api_Save
    \/ Api_Load

SpecApi == InitApi /\ [][NextApi]_vars

----------------------------------------------------------------------------
(* Properties *)

DefaultAdmin == NewUser("AdminUser", DefaultAdminName, DefaultAdminPw, TRUE, 0)

HasName(us, username) == \E i \in 1 .. Len(us) : us[i].username = username

HasAdminUser(us) == \E i \in 1 .. Len(us) : us[i].cls = "AdminUser"

\* a step of the menu loop that leaves the process running
InRun == pc = "run" /\ pc' = "run"

\* a direct call of the named method
Called(op) == pc = "call" /\ pc' = "returned" /\ last'.op = op

\* C1: while main runs (after load_users and the default-admin bootstrap, and
\* after any commands), no two accounts of the list have the same username.
C1_UniqueUsernames ==
    pc = "run" =>
        \A i, j \in 1 .. Len(users) :
            i # j => users[i].username # users[j].username

\* C2: login on an active account returns Success and adds exactly 1 to that
\* account's login_count if and only if the supplied username and password
\* equal the account's; otherwise it returns InvalidCredentials and the list
\* is unchanged.
C2_LoginActive ==
    [][Called("login") /\ users[last'.idx].active =>
         LET i == last'.idx
             u == users[i]
         IN  IF last'.user = u.username /\ last'.pw = u.password
             THEN /\ last'.res = "Success"
                  /\ users' = [users EXCEPT ![i].login_count = u.login_count + 1]
             ELSE /\ last'.res = "InvalidCredentials"
                  /\ users' = users]_vars

C2_Witness ==
    /\ pc = "returned"
    /\ last.op = "login"
    /\ last.res = "Success"
    /\ Len(users) = 2
    /\ users[last.idx].login_count = 2

\* C3: login on an account whose active flag is false returns Disabled, for
\* every supplied username and password, and leaves the list unchanged.
C3_LoginDisabled ==
    [][Called("login") /\ ~users[last'.idx].active =>
         /\ last'.res = "Disabled"
         /\ users' = users]_vars

C3_Witness ==
    /\ pc = "returned"
    /\ last.op = "login"
    /\ last.res = "Disabled"
    /\ ~users[last.idx].active
    /\ users[last.idx].username = last.user
    /\ users[last.idx].password = last.pw

\* C4: while main runs, every account's login_count equals the login_count it
\* was constructed with plus the number of login calls on it that returned
\* Success (an account created with 0 and N successes has login_count N).
C4_CountIsSuccesses ==
    pc = "run" =>
        /\ Len(audit) = Len(users)
        /\ \A i \in 1 .. Len(users) : users[i].login_count = audit[i]

C4_Witness ==
    /\ pc = "run"
    /\ last.op = "admin"
    /\ last.res = "Deactivated"
    /\ users[last.idx].login_count = 1
    /\ \E i \in 1 .. Len(users) :
         /\ users[i].cls = "User"
         /\ i = last.tidx
         /\ users[i].login_count = 2

\* C5: create with a username some account of the list already has answers
\* DuplicateUsername and leaves the list unchanged.
C5_CreateDuplicate ==
    [][InRun /\ last'.op = "create" /\ HasName(users, last'.user) =>
         /\ last'.res = "DuplicateUsername"
         /\ users' = users]_vars

C5_Witness ==
    /\ pc = "run"
    /\ last.op = "create"
    /\ last.res = "DuplicateUsername"
    /\ last.idx = 2
    /\ Len(users) = 2

\* C6: create(u, p) with a username no account of the list has appends a
\* regular account, and find_user(u) right after returns that appended
\* account, with username u, password p, active TRUE and login_count 0.
C6_CreateThenFind ==
    [][InRun /\ last'.op = "create" /\ ~HasName(users, last'.user) =>
         /\ last'.res = "Created"
         /\ users' = Append(users, NewUser("User", last'.user, last'.pw, TRUE, 0))
         /\ find_user(users', last'.user) = Len(users) + 1
         /\ users'[find_user(users', last'.user)] =
                NewUser("User", last'.user, last'.pw, TRUE, 0)]_vars

C6_Witness ==
    /\ pc = "run"
    /\ last.op = "create"
    /\ last.res = "Created"
    /\ last.user = "Admin"
    /\ HasName(users, "admin")
    /\ users[Len(users)] = NewUser("User", "Admin", last.pw, TRUE, 0)

\* C7: load_users after save_users returns a list of the same length whose
\* accounts have, position by position, the same class, username, password,
\* active flag and login_count as the list saved.
C7_RoundTrip ==
    [][pc = "saved" /\ pc' = "returned" =>
         /\ last'.res = "none"
         /\ Len(users') = Len(users)
         /\ \A i \in 1 .. Len(users) :
              /\ users'[i].cls = users[i].cls
              /\ users'[i].username = users[i].username
              /\ users'[i].password = users[i].password
              /\ users'[i].active = users[i].active
              /\ users'[i].login_count = users[i].login_count]_vars

C7_Witness ==
    /\ pc = "returned"
    /\ last.op = "load_users"
    /\ last.res = "none"
    /\ file.state = "json"
    /\ Len(users) = 2
    /\ users[1].cls = "AdminUser"
    /\ users[2].cls = "User"
    /\ ~users[2].active
    /\ users[2].login_count = 1

\* C8: when users.json does not exist or holds an empty list, load_users
\* returns an empty list without an exception, and after the bootstrap the
\* list is exactly one account: the active default admin with login_count 0.
C8_FirstRun ==
    [][pc = "off" /\ last'.op = "start" /\ (file = NoFile \/ file = JsonFile(<<>>)) =>
         /\ load_users(file) = [err |-> "none", users |-> <<>>]
         /\ last'.res = "ok"
         /\ pc' = "run"
         /\ users' = <<DefaultAdmin>>]_vars

C8_Witness ==
    /\ pc = "run"
    /\ last.op = "start"
    /\ last.res = "ok"
    /\ file = NoFile
    /\ users = <<DefaultAdmin>>

\* C9: whenever main runs, the list holds at least one AdminUser; and the
\* bootstrap appends the default admin when the loaded list holds no
\* AdminUser and leaves the loaded list as it is otherwise.
C9_AdminExists ==
    [][/\ pc' = "run" => HasAdminUser(users')
       /\ pc = "off" /\ pc' = "run" =>
            LET loaded == load_users(file).users IN
            users' = IF HasAdminUser(loaded) THEN loaded
                     ELSE Append(loaded, DefaultAdmin)]_vars

C9_Witness ==
    /\ pc = "run"
    /\ last.op = "start"
    /\ Len(users) = 2
    /\ users[1].cls = "User"
    /\ users[2] = DefaultAdmin

\* some account's password or active flag differs after the step
CredentialOrFlagChanged ==
    \E i \in 1 .. Len(users) :
        \/ users'[i].password # users[i].password
        \/ users'[i].active # users[i].active

\* C10: in the menu loop a password or an active flag changes only in an
\* admin_actions request whose named account is an AdminUser on which login
\* returned Success in that request; a request naming a missing account, a
\* regular account, a disabled admin or a wrong password changes none.
C10_AdminGate ==
    [][InRun =>
         /\ CredentialOrFlagChanged =>
              /\ last'.op = "admin"
              /\ last'.idx # None
              /\ users[last'.idx].cls = "AdminUser"
              /\ users[last'.idx].active
              /\ users[last'.idx].username = last'.user
              /\ users[last'.idx].password = last'.pw
              /\ audit'[last'.idx] = audit[last'.idx] + 1
         /\ /\ last'.op = "admin"
            /\ \/ ~HasName(users, last'.user)
               \/ users[last'.idx].cls # "AdminUser"
               \/ ~users[last'.idx].active
               \/ users[last'.idx].password # last'.pw
            => ~CredentialOrFlagChanged]_vars

C10_Witness ==
    /\ pc = "run"
    /\ last.op = "admin"
    /\ last.res = "Deactivated"
    /\ users[last.idx].cls = "AdminUser"
    /\ last.tidx # last.idx
    /\ ~users[last.tidx].active

\* C11: Exit overwrites users.json with the whole list, and the next start
\* (load_users, then the bootstrap) runs with the same accounts in the same
\* order as the list at exit, without an added default admin.
C11_RestartKeepsStore ==
    [][/\ pc = "run" /\ last'.op = "exit" =>
            /\ file'.state = "json"
            /\ Len(file'.raw) = Len(users)
            /\ \A i \in 1 .. Len(users) :
                 /\ DOMAIN file'.raw[i] = Keys
                 /\ file'.raw[i]["username"] = users[i].username
       /\ pc = "off" /\ last.op = "exit" /\ last'.op = "start" =>
            /\ last'.res = "ok"
            /\ pc' = "run"
            /\ users' = users]_vars

C11_Witness ==
    /\ pc = "run"
    /\ last.op = "start"
    /\ Len(users) = 2
    /\ users[1] = NewUser("AdminUser", "admin", "admin123", FALSE, 2)
    /\ users[2] = NewUser("User", "Admin", "pw1", TRUE, 2)

\* C12: deactivate and reactivate are idempotent: a second deactivate of the
\* same target leaves the list as the first left it (active FALSE), and so
\* does a second reactivate (active TRUE), whatever the target's state was.
C12_Idempotent ==
    [][/\ Called("deactivate") => ~users'[last'.tidx].active
       /\ Called("reactivate") => users'[last'.tidx].active
       /\ pc = "returned" /\ pc' = "again" /\ last'.tidx = last.tidx =>
            users' = users]_vars

C12_Witness ==
    /\ pc = "again"
    /\ last.op = "deactivate"
    /\ Len(users) = 2
    /\ ~users[last.tidx].active

\* the list once login() has counted the gate's success on the admin at a
Gated(a) == [users EXCEPT ![a].login_count = users[a].login_count + 1]

\* C13: reset_password, deactivate and reactivate change nothing but the one
\* field they name, of the target alone: after the gate's login has counted
\* on the acting admin, the list differs only in the target's password (set
\* to the new password) or active flag; no login_count changes, and this is
\* so for an active target, a disabled one and the acting admin itself.
C13_AdminOpFrame ==
    [][InRun /\ last'.op = "admin" =>
         LET a == last'.idx
             t == last'.tidx
         IN  /\ last'.res = "Reset" =>
                  users' = [Gated(a) EXCEPT ![t].password = last'.newpw]
             /\ last'.res = "Deactivated" =>
                  users' = [Gated(a) EXCEPT ![t].active = FALSE]
             /\ last'.res = "Reactivated" =>
                  users' = [Gated(a) EXCEPT ![t].active = TRUE]]_vars

C13_Witness ==
    /\ pc = "run"
    /\ last.op = "admin"
    /\ last.res = "Reset"
    /\ last.tidx = last.idx
    /\ users[last.idx].login_count = 2
    /\ users[last.idx].password = "pw1"

\* C14: no command of the menu loop (create, login, list, admin action, save,
\* exit, invalid choice) removes or reorders an account or lowers a
\* login_count: the list of usernames is kept as a prefix, and every
\* account's login_count is at least what it was.
C14_NothingLost ==
    [][pc = "run" =>
         /\ Len(users') >= Len(users)
         /\ \A i \in 1 .. Len(users) :
              /\ users'[i].username = users[i].username
              /\ users'[i].cls = users[i].cls
              /\ users'[i].login_count >= users[i].login_count]_vars

C14_Witness ==
    /\ pc = "run"
    /\ last.op = "create"
    /\ last.res = "Created"
    /\ Len(users) = 3
    /\ users[1].login_count = 2

\* C15: deactivate leaves its target disabled; while an account is disabled
\* every login on it (from the menu or as the admin gate) answers Disabled,
\* its login_count stays as it was, and only an admin's reactivate of that
\* account makes it active again; on an active account login with its
\* username and current password answers Success and adds 1, so the count
\* goes on from the value it had before the deactivation.
C15_DisabledUntilReactivated ==
    [][InRun =>
         /\ last'.op = "admin" /\ last'.res = "Deactivated" =>
              ~users'[last'.tidx].active
         /\ last'.op = "admin" /\ last'.res = "Reactivated" =>
              users'[last'.tidx].active
         /\ \A i \in 1 .. Len(users) :
              ~users[i].active =>
                 /\ users'[i].login_count = users[i].login_count
                 /\ users'[i].active =>
                      /\ last'.op = "admin"
                      /\ last'.res = "Reactivated"
                      /\ last'.tidx = i
                 /\ last'.op = "login" /\ last'.idx = i =>
                      last'.res = "Disabled"
                 /\ last'.op = "admin" /\ last'.idx = i /\ users[i].cls = "AdminUser" =>
                      last'.res = "Disabled"
         /\ /\ last'.op = "login"
            /\ last'.idx # None
            /\ users[last'.idx].active
            /\ users[last'.idx].password = last'.pw
            => /\ last'.res = "Success"
               /\ users'[last'.idx].login_count = users[last'.idx].login_count + 1]_vars

\* A first run without users.json: the account was created active in this
\* run, logged in once and was deactivated by the admin; the login with its
\* own password is answered Disabled.
C15_Witness ==
    /\ pc = "run"
    /\ file = NoFile
    /\ last.op = "login"
    /\ last.res = "Disabled"
    /\ users[last.idx].cls = "User"
    /\ users[last.idx].password = last.pw
    /\ users[last.idx].login_count = 1

\* C16: reset_password writes the new password on the account find_user
\* returns for the target's name, so a later find_user sees it; and a login
\* that follows the reset on that account, when active, answers Success for
\* the new password and InvalidCredentials for any other (the old one too).
C16_ResetThenLogin ==
    [][InRun =>
         /\ last'.op = "admin" /\ last'.res = "Reset" =>
              /\ find_user(users', last'.target) = last'.tidx
              /\ users'[find_user(users', last'.target)].password = last'.newpw
         /\ /\ last.op = "admin"
            /\ last.res = "Reset"
            /\ last'.op = "login"
            /\ last'.user = last.target
            /\ users[last.tidx].active
            => /\ last'.idx = last.tidx
               /\ last'.pw = last.newpw => last'.res = "Success"
               /\ last'.pw # last.newpw =>
                    /\ last'.res = "InvalidCredentials"
                    /\ users' = users]_vars

C16_Witness ==
    /\ pc = "run"
    /\ last.op = "admin"
    /\ last.res = "Reset"
    /\ last.tidx # last.idx
    /\ users[last.tidx].active
    /\ users[last.tidx].login_count = 1
    /\ users[last.tidx].password = "admin123"
    /\ last.newpw = "admin123"

\* C17: load_users of a list of objects that all hold "username" and
\* "password" returns, without an exception, one account per object in the
\* same order: an AdminUser exactly when the object's "type" is "AdminUser"
\* (a User for "User", for another tag and for no tag), active TRUE when
\* "active" is missing and login_count 0 when "login_count" is missing; when
\* some object lacks "username" or "password" the load fails with KeyError
\* and returns no list.
C17_Deserialize ==
    [][pc = "call" /\ last'.op = "load_users" /\ file.state = "json" =>
         IF \A i \in 1 .. Len(file.raw) :
               {"username", "password"} \subseteq DOMAIN file.raw[i]
         THEN /\ last'.res = "none"
              /\ Len(users') = Len(file.raw)
              /\ \A i \in 1 .. Len(file.raw) :
                   LET d == file.raw[i] IN
                   /\ (users'[i].cls = "AdminUser") =
                         ("type" \in DOMAIN d /\ d["type"] = "AdminUser")
                   /\ users'[i].cls \in {"User", "AdminUser"}
                   /\ users'[i].username = d["username"]
                   /\ users'[i].password = d["password"]
                   /\ users'[i].active =
                         IF "active" \in DOMAIN d THEN d["active"] ELSE TRUE
                   /\ users'[i].login_count =
                         IF "login_count" \in DOMAIN d THEN d["login_count"] ELSE 0
         ELSE /\ last'.res = "KeyError"
              /\ users' = users]_vars

C17_Witness ==
    /\ pc = "returned"
    /\ last.op = "load_users"
    /\ last.res = "none"
    /\ file = JsonFile(<<[type |-> "Guest", username |-> "Admin", password |-> "pw1",
                         login_count |-> 1],
                        [type |-> "AdminUser", username |-> "admin",
                         password |-> "admin123", active |-> TRUE, login_count |-> 0]>>)
    /\ users = <<NewUser("User", "Admin", "pw1", TRUE, 1),
                 NewUser("AdminUser", "admin", "admin123", TRUE, 0)>>

\* C18: while main runs, every account's password and username is a string
\* that is not empty: create and reset_password only ever write what
\* prompt_nonempty returned.
C18_NonEmptyCredentials ==
    pc = "run" =>
        \A i \in 1 .. Len(users) :
            /\ users[i].password # ""
            /\ users[i].username # ""

C18_Witness ==
    /\ pc = "run"
    /\ last.op = "admin"
    /\ last.res = "Reset"
    /\ last.newpw = "pw1"
    /\ users[last.tidx].cls = "User"
    /\ ~users[last.tidx].active
    /\ users[last.tidx].password = "pw1"

\* every account of class AdminUser is disabled, and there is one
Locked(us) ==
    /\ HasAdminUser(us)
    /\ \A i \in 1 .. Len(us) : us[i].cls = "AdminUser" => ~us[i].active

\* C19: once every AdminUser is disabled, every later step (a menu choice,
\* the exit with its save, the next start with its load and bootstrap) keeps
\* every account there is with its class, name, password and active flag, so
\* the admins stay disabled and the start appends no default admin; an admin
\* request in that state is answered Disabled when it names an AdminUser and
\* NotAdmin otherwise.
C19_LockoutPermanent ==
    [][Locked(users) =>
         /\ Locked(users')
         /\ Len(users') >= Len(users)
         /\ \A i \in 1 .. Len(users) :
              /\ users'[i].cls = users[i].cls
              /\ users'[i].username = users[i].username
              /\ users'[i].password = users[i].password
              /\ users'[i].active = users[i].active
         /\ (pc = "off" => Len(users') = Len(users))
         /\ (pc = "run" /\ last'.op = "admin" =>
               last'.res = (IF IsAdmin(users, last'.idx) THEN "Disabled" ELSE "NotAdmin"))
    ]_vars

\* a later run has just started, locked: the only admin, "Admin", which no
\* first run finds disabled, was disabled in an earlier run and saved so, and
\* the start appended nothing
C19_Witness ==
    /\ pc = "run"
    /\ last.op = "start"
    /\ Locked(users)
    /\ Len(users) = 1
    /\ users[1].username = "Admin"
    /\ users[1].login_count > 0

\* C20: an admin request whose login() returned True (it got to the sub-menu,
\* whatever was chosen there) leaves the acting admin's login_count one higher
\* and every other account's login_count as it was; a request that names no
\* account, or one of class User, leaves the list as it was, whatever the
\* password typed.
C20_GateCounts ==
    [][InRun /\ last'.op = "admin" =>
         LET a == find_user(users, last'.user) IN
         /\ last'.idx = a
         /\ Len(users') = Len(users)
         /\ IF IsAdmin(users, a)
            THEN /\ (last'.res \in {"Back", "TargetNotFound", "Reset",
                                   "Deactivated", "Reactivated"}
                       <=> users[a].active /\ users[a].password = last'.pw)
                 /\ users'[a].login_count = users[a].login_count +
                       (IF users[a].active /\ users[a].password = last'.pw THEN 1 ELSE 0)
                 /\ \A i \in 1 .. Len(users) :
                       i # a => users'[i].login_count = users[i].login_count
            ELSE /\ last'.res = "NotAdmin"
                 /\ users' = users
    ]_vars

\* the request of a regular, active account with its own password
C20_Witness ==
    /\ pc = "run"
    /\ last.op = "admin"
    /\ last.res = "NotAdmin"
    /\ last.idx # None
    /\ users[last.idx].cls = "User"
    /\ users[last.idx].active
    /\ users[last.idx].password = last.pw
    /\ users[last.idx].login_count = 0

====
